---- MODULE Spec2Model ----
(***************************************************************************)
(* Model of the transaction-construction and AMM-math core of              *)
(* meta-recipes: src/src/services/near.ts (class BaseLogic, lines 26-653,  *)
(* and class Logic, lines 658-733).                                        *)
(*                                                                         *)
(* Amounts are decimal strings in the source.  Here a string is a sequence *)
(* of decimal digits (<<4, 0>> is "40"); BigInt parses one and toString    *)
(* prints one, as BigInt(s) and n.toString() do for canonical non-negative *)
(* decimals.  NULL and NullObject are the JSON null; an exception is named *)
(* by the ...Throws companion of the function that throws it.              *)
(*                                                                         *)
(* The storage constants are yocto-NEAR amounts of 10^21 and more; they    *)
(* are kept in units of 1.25 * 10^21 yocto (the value of                   *)
(* NEW_ACCOUNT_STORAGE_COST), which keeps their ratios exact.              *)
(***************************************************************************)
EXTENDS Integers, Sequences, FiniteSets

VARIABLES
    call,         \* SpecMath: one call of a pure function, its arguments and outcome
    accessKeys,   \* chain: the nonce stored with each access key of the account
    isFarmActive, \* Logic.isFarmActive (undefined is FALSE: only its truthiness is read)
    step,         \* the recipe step being run, and where it stands
    ops,          \* the transaction-producing operations called, in call order
    wallet        \* passToWallet's state and the sign requests made to the wallet

\* ------------------------------------------------------------ bounds
MaxX == 45
MaxM == 6
MaxK == 2
MaxTokens == 2
MaxDeposits == 2
MaxPositions == 2
MaxAllowance == 5
MaxNonce == 1

\* ------------------------------------------------------------ values
\* The JSON null where a string is expected, and where an object is expected.
NULL == <<-1>>
NullObject == [null |-> TRUE]
\* The empty object {}.
EmptyObject == [empty |-> TRUE]

RECURSIVE toString(_)
toString(n) == IF n < 10 THEN <<n>> ELSE toString(n \div 10) \o <<n % 10>>

RECURSIVE BigInt(_)
BigInt(s) == IF s = <<>> THEN 0
             ELSE 10 * BigInt(SubSeq(s, 1, Len(s) - 1)) + s[Len(s)]

\* ------------------------------------------------------------ Amount arithmetic
\* Each function that can throw has a companion ...Throws naming the exception
\* ("none" when it returns); the function itself is its value when it returns.
roundUpToNearestThrows(x, m) == IF BigInt(m) = 0 THEN "RangeError" ELSE "none"

\* Variant: m is added even when x is already a multiple of m.
roundUpToNearestAlwaysAdds(x, m) ==
    LET rest == BigInt(x) % BigInt(m)
        toAdd == BigInt(m)
    IN  toString(BigInt(x) - rest + toAdd)

roundUpToNearest(x, m) ==
    LET rest == BigInt(x) % BigInt(m)
        toAdd == IF rest = 0 THEN 0 ELSE BigInt(m)
    IN  toString(BigInt(x) - rest + toAdd)

\* ------------------------------------------------------------ AMM math
\* amounts.map(amount => ...) of calcMinLPAmountsOut; the division throws a
\* RangeError when total_shares is zero and there is an amount to map.
calcMinLPAmountsOutThrows(user_shares, total_shares, amounts) ==
    IF amounts # <<>> /\ BigInt(total_shares) = 0 THEN "RangeError" ELSE "none"

\* Variant: the share and the tolerance applied in a single division.
calcMinLPAmountsOutOneDivision(user_shares, total_shares, amounts) ==
    [i \in 1 .. Len(amounts) |->
        toString((BigInt(amounts[i]) * BigInt(user_shares) * 999)
                     \div (BigInt(total_shares) * 1000))]

calcMinLPAmountsOut(user_shares, total_shares, amounts) ==
    [i \in 1 .. Len(amounts) |->
        LET exact_amount == (BigInt(amounts[i]) * BigInt(user_shares))
                                \div BigInt(total_shares)
        IN  toString((exact_amount * 999) \div 1000)]

\* What the callback of pool_amounts.reduce throws at `index` (1-based here):
\* BigInt(undefined) when lp_amounts is shorter, a division by zero when the
\* pool amount is zero.
lpCallbackThrows(pool_amounts, lp_amounts, index) ==
    IF index > Len(lp_amounts) THEN "TypeError"
    ELSE IF BigInt(pool_amounts[index]) = 0 THEN "RangeError"
    ELSE "none"

\* The callback of pool_amounts.reduce in calcLpSharesFromAmounts, applied from
\* `index` on with accumulator prevValue.
RECURSIVE lpReduce(_, _, _, _, _)
lpReduce(pool_total_shares, pool_amounts, lp_amounts, prevValue, index) ==
    IF index > Len(pool_amounts) THEN prevValue
    ELSE LET currValue == (BigInt(pool_total_shares) * BigInt(lp_amounts[index]))
                              \div BigInt(pool_amounts[index])
             next == IF BigInt(prevValue) < currValue THEN prevValue
                     ELSE toString(currValue)
         IN  lpReduce(pool_total_shares, pool_amounts, lp_amounts, next, index + 1)

\* reduce is called without an initial value: the accumulator starts as
\* pool_amounts[0] and the callback first runs at the second element; on an
\* empty array reduce throws a TypeError.
calcLpSharesFromAmountsThrows(pool_total_shares, pool_amounts, lp_amounts) ==
    IF pool_amounts = <<>> THEN "TypeError"
    ELSE LET bad == {i \in 2 .. Len(pool_amounts) :
                        lpCallbackThrows(pool_amounts, lp_amounts, i) # "none"}
         IN  IF bad = {} THEN "none"
             ELSE lpCallbackThrows(pool_amounts, lp_amounts,
                                   CHOOSE i \in bad : \A j \in bad : i <= j)

calcLpSharesFromAmounts(pool_total_shares, pool_amounts, lp_amounts) ==
    LET lp_shares_estimate ==
            lpReduce(pool_total_shares, pool_amounts, lp_amounts, pool_amounts[1], 2)
    IN  toString((BigInt(lp_shares_estimate) * 997) \div 1000)

\* ------------------------------------------------------------ configuration
\* window.nearConfig addresses.
ADDRESS_REF_EXCHANGE == "ref-exchange"
ADDRESS_REF_FARMING == "ref-farming"
ADDRESS_WNEAR == "wnear"
ADDRESS_METAPOOL == "metapool"
AccountId == "account"

\* parseNearAmount("0.045"), ("0.005"), ("0.01"), ("0.01"), ("0.00125"), as
\* strings, in units of 1.25 * 10^21 yocto.
FARM_STORAGE_BALANCE == <<3, 6>>
MIN_DEPOSIT_PER_TOKEN == <<4>>
ONE_MORE_DEPOSIT_AMOUNT == <<8>>
LP_STORAGE_AMOUNT == <<8>>
NEW_ACCOUNT_STORAGE_COST == <<1>>

STNEAR_WNEAR_POOL_ID == 535

\* The "1" of the one-yocto deposits; it is never added to a storage amount.
OneYocto == <<1>>

\* nearAPI.transactions.functionCall; gas is in units of 10^12.
functionCall(methodName, args, gas, deposit) ==
    [methodName |-> methodName, args |-> args, gas |-> gas, deposit |-> deposit]

\* One call of this.makeTransaction(receiverId, actions[, nonceOffset]).
TxRequest(receiverId, actions) ==
    [receiverId |-> receiverId, actions |-> actions, nonceOffset |-> 1]

\* ------------------------------------------------------------ the operations, after their view call
\* Variant: the storage_deposit call with nothing attached.
storageDepositActionNothingAttached(gas, deposit) ==
    functionCall("storage_deposit", EmptyObject, gas, <<0>>)

storageDepositAction(gas, deposit) ==
    functionCall("storage_deposit", EmptyObject, gas, deposit)

\* Variant: the storage transaction is requested whether or not it has actions.
farmStakeAlwaysStorageTx(amount, poolID, storage_balance) ==
    LET available == IF storage_balance = NullObject \/ storage_balance.available = NULL
                     THEN <<0>> ELSE storage_balance.available
        storageActions ==
            IF \/ storage_balance = NullObject
               \/ BigInt(available) < BigInt(FARM_STORAGE_BALANCE)
               \/ BigInt(available) < BigInt(MIN_DEPOSIT_PER_TOKEN)
            THEN <<storageDepositAction(20, FARM_STORAGE_BALANCE)>>
            ELSE <<>>
        stakingActions ==
            <<functionCall("mft_transfer_call",
                           [receiver_id |-> ADDRESS_REF_FARMING, token_id |-> <<":", poolID>>,
                            amount |-> amount, msg |-> ""],
                           180, OneYocto)>>
    IN  <<TxRequest(ADDRESS_REF_FARMING, storageActions),
          TxRequest(ADDRESS_REF_EXCHANGE, stakingActions)>>

\* farmStake, from the storage_balance_of result on: the makeTransaction calls
\* pushed to preTXs, in order.
farmStake(amount, poolID, storage_balance) ==
    LET available == IF storage_balance = NullObject \/ storage_balance.available = NULL
                     THEN <<0>> ELSE storage_balance.available
        storageActions ==
            IF \/ storage_balance = NullObject
               \/ BigInt(available) < BigInt(FARM_STORAGE_BALANCE)
               \/ BigInt(available) < BigInt(MIN_DEPOSIT_PER_TOKEN)
            THEN <<storageDepositAction(20, FARM_STORAGE_BALANCE)>>
            ELSE <<>>
        stakingActions ==
            <<functionCall("mft_transfer_call",
                           [receiver_id |-> ADDRESS_REF_FARMING, token_id |-> <<":", poolID>>,
                            amount |-> amount, msg |-> ""],
                           180, OneYocto)>>
    IN  (IF Len(storageActions) > 0
         THEN <<TxRequest(ADDRESS_REF_FARMING, storageActions)>> ELSE <<>>)
        \o <<TxRequest(ADDRESS_REF_EXCHANGE, stakingActions)>>

\* farmUnstake: BigInt(storage_balance.available) throws on a null available.
farmUnstakeThrows(storage_balance) ==
    IF storage_balance # NullObject /\ storage_balance.available = NULL
    THEN "TypeError" ELSE "none"

farmUnstake(amount, poolID, storage_balance) ==
    LET actions ==
            (IF storage_balance = NullObject \/ BigInt(storage_balance.available) <= 0
             THEN <<storageDepositAction(20, FARM_STORAGE_BALANCE)>> ELSE <<>>)
            \o <<functionCall("withdraw_seed",
                              [seed_id |-> <<ADDRESS_REF_EXCHANGE, "@", poolID>>,
                               amount |-> amount, msg |-> ""],
                              200, OneYocto)>>
    IN  <<TxRequest(ADDRESS_REF_FARMING, actions)>>

\* Variant: a tolerance of 1%.
minLpAmountsOnePercent(amounts) ==
    [i \in 1 .. Len(amounts) |-> toString((BigInt(amounts[i]) * 99) \div 100)]

\* Variant: no slippage tolerance.
minLpAmountsNoTolerance(amounts) == amounts

\* The slippage bound of addLiquidity (lines 285-287).
minLpAmounts(amounts) ==
    [i \in 1 .. Len(amounts) |-> toString((BigInt(amounts[i]) * 999) \div 1000)]

\* Variant: one transaction per position.
addLiquidityOneTxPerPosition(positions) ==
    [i \in 1 .. Len(positions) |->
        TxRequest(ADDRESS_REF_EXCHANGE,
                  <<functionCall("add_liquidity",
                                 [pool_id |-> positions[i].pool_id,
                                  amounts |-> positions[i].amounts,
                                  min_amounts |-> minLpAmounts(positions[i].amounts)],
                                 100, LP_STORAGE_AMOUNT)>>)]

addLiquidity(positions) ==
    LET refActions ==
            [i \in 1 .. Len(positions) |->
                functionCall("add_liquidity",
                             [pool_id |-> positions[i].pool_id,
                              amounts |-> positions[i].amounts,
                              min_amounts |-> minLpAmounts(positions[i].amounts)],
                             100, LP_STORAGE_AMOUNT)]
    IN  <<TxRequest(ADDRESS_REF_EXCHANGE, refActions)>>

instantSwap(swap_action, tokenOutStorage) ==
    LET tokenOutActions ==
            IF tokenOutStorage = NullObject \/ BigInt(tokenOutStorage.total) <= 0
            THEN <<storageDepositAction(30, NEW_ACCOUNT_STORAGE_COST)>> ELSE <<>>
        tokenInActions ==
            <<functionCall("ft_transfer_call",
                           [receiver_id |-> ADDRESS_REF_EXCHANGE,
                            amount |-> swap_action.amount_in,
                            msg |-> [force |-> 0, actions |-> <<swap_action>>]],
                           180, OneYocto)>>
    IN  (IF Len(tokenOutActions) > 0
         THEN <<TxRequest(swap_action.token_out, tokenOutActions)>> ELSE <<>>)
        \o <<TxRequest(swap_action.token_in, tokenInActions)>>

nearToStnear(near_amount) ==
    <<TxRequest(ADDRESS_METAPOOL,
                <<functionCall("deposit_and_stake", EmptyObject, 50, near_amount)>>)>>

\* Variant: the storage is paid with the deposit of the exchange.
nearToWnearExchangeStorage(near_amount, wnearStorage) ==
    LET wNearActions ==
            (IF wnearStorage = NullObject \/ BigInt(wnearStorage.total) <= 0
             THEN <<storageDepositAction(30, MIN_DEPOSIT_PER_TOKEN)>> ELSE <<>>)
            \o <<functionCall("near_deposit", EmptyObject, 50, near_amount)>>
    IN  <<TxRequest(ADDRESS_WNEAR, wNearActions)>>

\* Variant: the storage is paid after the deposit.
nearToWnearStorageLast(near_amount, wnearStorage) ==
    LET wNearActions ==
            <<functionCall("near_deposit", EmptyObject, 50, near_amount)>>
            \o (IF wnearStorage = NullObject \/ BigInt(wnearStorage.total) <= 0
                THEN <<storageDepositAction(30, NEW_ACCOUNT_STORAGE_COST)>> ELSE <<>>)
    IN  <<TxRequest(ADDRESS_WNEAR, wNearActions)>>

nearToWnear(near_amount, wnearStorage) ==
    LET wNearActions ==
            (IF wnearStorage = NullObject \/ BigInt(wnearStorage.total) <= 0
             THEN <<storageDepositAction(30, NEW_ACCOUNT_STORAGE_COST)>> ELSE <<>>)
            \o <<functionCall("near_deposit", EmptyObject, 50, near_amount)>>
    IN  <<TxRequest(ADDRESS_WNEAR, wNearActions)>>

\* depositTokensOnRef: when storage_balance is null the condition of line 515
\* holds and line 517 reads storage_balance.available of null; when the record
\* has a null available, BigInt(null) throws in the condition itself.
depositTokensOnRefThrows(deposits, storage_balance) ==
    IF storage_balance = NullObject \/ storage_balance.available = NULL
    THEN "TypeError" ELSE "none"

\* The test of line 515 on a record with an available amount.
storageShortOnRef(available, storage_needed) == BigInt(available) <= storage_needed

\* Variant: the storage of one token, whatever the number of deposits.
storageNeededOnRefPerToken(deposits) == BigInt(MIN_DEPOSIT_PER_TOKEN)

\* Line 504.
storageNeededOnRef(deposits) == Len(deposits) * BigInt(MIN_DEPOSIT_PER_TOKEN)

\* Variant: the storage transaction is requested after the token deposits.
depositTokensOnRefStorageLast(deposits, storage_balance) ==
    LET storage_needed == storageNeededOnRef(deposits)
        amountMissing == toString(storage_needed - BigInt(storage_balance.available))
        amountToPay == roundUpToNearest(amountMissing, MIN_DEPOSIT_PER_TOKEN)
        refActions ==
            IF storageShortOnRef(storage_balance.available, storage_needed)
            THEN <<storageDepositAction(20, amountToPay)>> ELSE <<>>
    IN  [i \in 1 .. Len(deposits) |->
            TxRequest(deposits[i].token,
                      <<functionCall("ft_transfer_call",
                                     [receiver_id |-> ADDRESS_REF_EXCHANGE,
                                      amount |-> deposits[i].amount, msg |-> ""],
                                     150, OneYocto)>>)]
        \o (IF Len(refActions) >= 1
            THEN <<TxRequest(ADDRESS_REF_EXCHANGE, refActions)>> ELSE <<>>)

depositTokensOnRef(deposits, storage_balance) ==
    LET storage_needed == storageNeededOnRef(deposits)
        amountMissing == toString(storage_needed - BigInt(storage_balance.available))
        amountToPay == roundUpToNearest(amountMissing, MIN_DEPOSIT_PER_TOKEN)
        refActions ==
            IF storageShortOnRef(storage_balance.available, storage_needed)
            THEN <<storageDepositAction(20, amountToPay)>> ELSE <<>>
        tokensActions ==
            [i \in 1 .. Len(deposits) |->
                [address |-> deposits[i].token,
                 actions |-> <<functionCall("ft_transfer_call",
                                            [receiver_id |-> ADDRESS_REF_EXCHANGE,
                                             amount |-> deposits[i].amount, msg |-> ""],
                                            150, OneYocto)>>]]
    IN  (IF Len(refActions) >= 1
         THEN <<TxRequest(ADDRESS_REF_EXCHANGE, refActions)>> ELSE <<>>)
        \o [i \in 1 .. Len(deposits) |->
               TxRequest(tokensActions[i].address, tokensActions[i].actions)]

\* ------------------------------------------------------------ chain answers
Keys == {"ed25519:A", "ed25519:B"}
NoKey == "none"

\* What storage_balance_of can answer: null, a record without an available
\* amount, or a record with total = available + used.
StorageBalances(availables, useds) ==
    {NullObject, [total |-> <<0>>, available |-> NULL]}
    \cup {[total |-> toString(a + u), available |-> toString(a)] :
             a \in availables, u \in useds}

ViewCallFailure == [failure |-> TRUE]

\* ------------------------------------------------------------ operations as processes
\* An operation runs to its first await when called: those that begin with a
\* view call wait for it (pc "view"), the others have already called
\* makeTransaction for each of their transactions and wait for them (pc "build").
HasView(name) == name \in {"farmStake", "farmStakeV2", "farmUnstake", "instantSwap",
                           "nearToWnear", "depositTokensOnRef"}

\* What the operation throws once its view call has answered.
ThrowsAfterView(name, args, answer) ==
    IF answer = ViewCallFailure THEN "ViewCallFailure"
    ELSE IF name = "farmUnstake" THEN farmUnstakeThrows(answer)
    ELSE IF name = "depositTokensOnRef" THEN depositTokensOnRefThrows(args.deposits, answer)
    ELSE "none"

\* farmStakeV2 (called at line 723) is not part of the sources; it is taken to
\* be the farm-stake operation, farmStake.
farmStakeV2(amount, poolID, storage_balance) == farmStake(amount, poolID, storage_balance)

\* The makeTransaction calls the operation issues, in the order of preTXs.
Requests(name, args, answer) ==
    CASE name = "farmStake" -> farmStake(args.amount, args.poolID, answer)
      [] name = "farmStakeV2" -> farmStakeV2(args.amount, args.poolID, answer)
      [] name = "farmUnstake" -> farmUnstake(args.amount, args.poolID, answer)
      [] name = "addLiquidity" -> addLiquidity(args.positions)
      [] name = "instantSwap" -> instantSwap(args.swap_action, answer)
      [] name = "nearToStnear" -> nearToStnear(args.near_amount)
      [] name = "nearToWnear" -> nearToWnear(args.near_amount, answer)
      [] name = "depositTokensOnRef" -> depositTokensOnRef(args.deposits, answer)

NoTx == NullObject

Awaiting(reqs) == [i \in 1 .. Len(reqs) |-> NoTx]

\* The operation just called.
StartOp(name, args) ==
    IF HasView(name)
    THEN [name |-> name, args |-> args, pc |-> "view", thrown |-> "none",
          answer |-> NullObject, reqs |-> <<>>, built |-> <<>>]
    ELSE LET reqs == Requests(name, args, NullObject)
         IN  [name |-> name, args |-> args, pc |-> "build", thrown |-> "none",
              answer |-> NullObject, reqs |-> reqs, built |-> Awaiting(reqs)]

\* makeTransaction from the answers of its two lookups on (lines 626-642).
makeTransactionThrows(accessKey) == IF accessKey = NoKey THEN "NoMatchingKey" ELSE "none"

\* Variant: the nonce of the access key as it is, without the offset.
makeTransactionSameNonce(req, accessKey, nonce, blockHash) ==
    [signerId |-> AccountId, publicKey |-> accessKey, receiverId |-> req.receiverId,
     nonce |-> nonce, actions |-> req.actions,
     blockHash |-> <<"baseDecode", blockHash>>]

makeTransaction(req, accessKey, nonce, blockHash) ==
    [signerId |-> AccountId, publicKey |-> accessKey, receiverId |-> req.receiverId,
     nonce |-> nonce + req.nonceOffset, actions |-> req.actions,
     blockHash |-> <<"baseDecode", blockHash>>]

AllBuilt(built) == \A j \in 1 .. Len(built) : built[j] # NoTx

\* ------------------------------------------------------------ inputs of the pure functions
AmountGrid == {0, 1} \cup {100 * k : k \in 1 .. MaxK}

Strings(S) == {toString(n) : n \in S}

AmountLists(S) == UNION {[1 .. n -> Strings(S)] : n \in 0 .. MaxTokens}

RoundInputs == (0 .. MaxX) \X (0 .. MaxM)

\* A call of a pure function: its arguments, then (done) what it threw or returned.
NewCall(fn, args) == [fn |-> fn, args |-> args, done |-> FALSE,
                      thrown |-> "none", result |-> <<>>]

Return(thrown, value) ==
    call' = [call EXCEPT !.done = TRUE, !.thrown = thrown,
                         !.result = IF thrown = "none" THEN value ELSE <<>>]

InitRoundUpToNearest ==
    \E in \in RoundInputs :
        call = NewCall("roundUpToNearest", [x |-> toString(in[1]), m |-> toString(in[2])])

InitCalcMinLPAmountsOut ==
    \E u \in Strings(AmountGrid), t \in Strings(AmountGrid \cup {1000}),
       a \in AmountLists(AmountGrid \cup {500, 900}) :
        call = NewCall("calcMinLPAmountsOut",
                       [user_shares |-> u, total_shares |-> t, amounts |-> a])

InitCalcLpSharesFromAmounts ==
    \E t \in Strings(AmountGrid \cup {1000000}),
       p \in AmountLists(AmountGrid), l \in AmountLists(AmountGrid \cup {10, 20}) :
        /\ Len(p) = Len(l)
        /\ BigInt(t) = 1000000 =>
               \A i \in 1 .. Len(p) : BigInt(p[i]) >= 100 /\ BigInt(l[i]) <= 20
        /\ call = NewCall("calcLpSharesFromAmounts",
                          [pool_total_shares |-> t, pool_amounts |-> p, lp_amounts |-> l])

InitAddLiquidity ==
    \E a \in AmountLists(AmountGrid \cup {999, 1000, 1001}) :
        call = NewCall("addLiquidity",
                       [positions |-> <<[pool_id |-> STNEAR_WNEAR_POOL_ID, amounts |-> a]>>])

\* ------------------------------------------------------------ the calls
CallRoundUpToNearest ==
    /\ call.fn = "roundUpToNearest" /\ ~call.done
    /\ LET a == call.args
       IN  Return(roundUpToNearestThrows(a.x, a.m), roundUpToNearest(a.x, a.m))

CallCalcMinLPAmountsOut ==
    /\ call.fn = "calcMinLPAmountsOut" /\ ~call.done
    /\ LET a == call.args
       IN  Return(calcMinLPAmountsOutThrows(a.user_shares, a.total_shares, a.amounts),
                  calcMinLPAmountsOut(a.user_shares, a.total_shares, a.amounts))

CallCalcLpSharesFromAmounts ==
    /\ call.fn = "calcLpSharesFromAmounts" /\ ~call.done
    /\ LET a == call.args
       IN  Return(calcLpSharesFromAmountsThrows(a.pool_total_shares, a.pool_amounts,
                                                a.lp_amounts),
                  calcLpSharesFromAmounts(a.pool_total_shares, a.pool_amounts,
                                          a.lp_amounts))

\* addLiquidity up to its makeTransaction call: the transaction it requests.
CallAddLiquidity ==
    /\ call.fn = "addLiquidity" /\ ~call.done
    /\ Return("none", addLiquidity(call.args.positions))

vars == <<call, accessKeys, isFarmActive, step, ops, wallet>>

Idle == [name |-> "idle", pc |-> "idle", thrown |-> "none"]

\* passToWallet: where it stands, the operations Promise.all has seen resolve,
\* in the order they did, and the calls of requestSignTransactions.
NoWallet == [pc |-> "idle", resolved |-> <<>>, requests |-> <<>>]

InitMath ==
    /\ \/ InitRoundUpToNearest
       \/ InitCalcMinLPAmountsOut
       \/ InitCalcLpSharesFromAmounts
       \/ InitAddLiquidity
    /\ accessKeys = [k \in Keys |-> 0]
    /\ isFarmActive = FALSE
    /\ step = Idle
    /\ ops = <<>>
    /\ wallet = NoWallet

NextMath ==
    /\ \/ CallRoundUpToNearest
       \/ CallCalcMinLPAmountsOut
       \/ CallCalcLpSharesFromAmounts
       \/ CallAddLiquidity
    /\ UNCHANGED <<accessKeys, isFarmActive, step, ops, wallet>>

SpecMath == InitMath /\ [][NextMath]_vars


\* ------------------------------------------------------------ inputs of the recipes
Tokens == {ADDRESS_METAPOOL, ADDRESS_WNEAR}

AmountChoices == Strings({1000, 2500})

DepositChoices == {[token |-> t, amount |-> a] : t \in Tokens, a \in Strings({1000})}

PositionChoices ==
    {[pool_id |-> STNEAR_WNEAR_POOL_ID, amounts |-> a] :
        a \in UNION {[1 .. n -> AmountChoices] : n \in 0 .. MaxTokens}}

ListsOf(S, max) == UNION {[1 .. n -> S] : n \in 0 .. max}

SwapChoices ==
    {[pool_id |-> STNEAR_WNEAR_POOL_ID, token_in |-> i, token_out |-> o,
      amount_in |-> a, min_amount_out |-> <<0>>] :
        i \in Tokens, o \in Tokens, a \in Strings({1000})}

\* The operations a recipe can call, with their arguments.
OperationCalls ==
    {[name |-> n, args |-> [amount |-> a, poolID |-> STNEAR_WNEAR_POOL_ID]] :
        n \in {"farmStake", "farmUnstake"}, a \in Strings({1000})}
    \cup {[name |-> "addLiquidity", args |-> [positions |-> ps]] :
             ps \in ListsOf(PositionChoices, MaxPositions)}
    \cup {[name |-> "instantSwap", args |-> [swap_action |-> sw]] : sw \in SwapChoices}
    \cup {[name |-> n, args |-> [near_amount |-> a]] :
             n \in {"nearToStnear", "nearToWnear"}, a \in Strings({0, 1000})}
    \cup {[name |-> "depositTokensOnRef", args |-> [deposits |-> ds]] :
             ds \in ListsOf(DepositChoices, MaxDeposits)}

\* What the view call of an operation can answer (failure apart): every
\* available amount up to the threshold the operation compares it with and one
\* above when the operation is called alone, the amounts around the threshold
\* when it runs inside stepTwoAction.
ViewAnswers(op) ==
    LET alone == step.name # "stepTwoAction"
        farm == BigInt(FARM_STORAGE_BALANCE)
        needed == storageNeededOnRef(op.args.deposits)
    IN  CASE op.name \in {"farmStake", "farmStakeV2", "farmUnstake"} ->
                StorageBalances(IF alone THEN {0, BigInt(MIN_DEPOSIT_PER_TOKEN), farm - 1, farm}
                                ELSE {farm - 1, farm}, {0})
          [] op.name \in {"instantSwap", "nearToWnear"} -> StorageBalances({0}, {0, 1})
          [] op.name = "depositTokensOnRef" ->
                StorageBalances(IF alone THEN 0 .. (needed + 1)
                                ELSE (needed - 1) .. (needed + 1), {0})

PoolAnswers ==
    {[total_fee |-> 30, amounts |-> a, shares_total_supply |-> <<1, 0, 0, 0>>] :
        a \in {<<>>, << <<1, 0, 0, 0>>, <<2, 0, 0, 0>> >>}}

FinalBlockHash == "final"

\* ------------------------------------------------------------ the recipe steps
\* Variant: what is left of the allowance after the wrap is staked.
StepOneActionStakesTheRest ==
    /\ step = Idle
    /\ \E allowance \in Strings(0 .. MaxAllowance) :
          LET amountToWrap == toString(BigInt(allowance) \div 2)
              amountToStake == toString(BigInt(allowance) - BigInt(amountToWrap))
          IN  /\ step' = [name |-> "stepOneAction", pc |-> "passToWallet", thrown |-> "none",
                          allowance |-> allowance]
              /\ ops' = <<StartOp("nearToWnear", [near_amount |-> amountToWrap]),
                          StartOp("nearToStnear", [near_amount |-> amountToStake])>>
              /\ wallet' = [wallet EXCEPT !.pc = "awaiting"]
    /\ UNCHANGED <<call, accessKeys, isFarmActive>>

\* stepOneAction (lines 684-696): both operations are called, then passToWallet,
\* which awaits them.
StepOneAction ==
    /\ step = Idle
    /\ \E allowance \in Strings(0 .. MaxAllowance) :
          LET amountToWrap == toString(BigInt(allowance) \div 2)
              amountToStake == toString(BigInt(allowance) \div 2)
          IN  /\ step' = [name |-> "stepOneAction", pc |-> "passToWallet", thrown |-> "none",
                          allowance |-> allowance]
              /\ ops' = <<StartOp("nearToWnear", [near_amount |-> amountToWrap]),
                          StartOp("nearToStnear", [near_amount |-> amountToStake])>>
              /\ wallet' = [wallet EXCEPT !.pc = "awaiting"]
    /\ UNCHANGED <<call, accessKeys, isFarmActive>>

\* stepTwoAction up to its first await: getPoolInfo has issued get_pool_shares.
\* isFarmActive takes here the value the page has stored by the time the step
\* runs; the step reads it at line 721.
StepTwoAction ==
    /\ step = Idle
    /\ \E s \in Strings({1000, 2500}), w \in Strings({1000}) :
          step' = [name |-> "stepTwoAction", pc |-> "get_pool_shares", thrown |-> "none",
                   amounts |-> [stnearAmount |-> s, wnearAmount |-> w]]
    /\ isFarmActive' \in BOOLEAN
    /\ UNCHANGED <<call, accessKeys, ops, wallet>>

\* getPoolInfo, lines 219-226: get_pool_shares answers, then get_pool is issued.
GetPoolSharesReturns ==
    /\ step.name = "stepTwoAction" /\ step.pc = "get_pool_shares"
    /\ \E answer \in {[user_shares |-> <<0>>], ViewCallFailure} :
          step' = IF answer = ViewCallFailure
                  THEN [step EXCEPT !.pc = "failed", !.thrown = "ViewCallFailure"]
                  ELSE [step EXCEPT !.pc = "get_pool"]
    /\ UNCHANGED <<call, accessKeys, isFarmActive, ops, wallet>>

\* Variant: the farm stake is added whatever the flag says.
GetPoolReturnsAlwaysFarm ==
    /\ step.name = "stepTwoAction" /\ step.pc = "get_pool"
    /\ \E answer \in PoolAnswers \cup {ViewCallFailure} :
          LET stnearAmount == step.amounts.stnearAmount
              wnearAmount == step.amounts.wnearAmount
              total_shares == answer.shares_total_supply
              pool_amounts == answer.amounts
              thrown == IF answer = ViewCallFailure THEN "ViewCallFailure"
                        ELSE calcLpSharesFromAmountsThrows(
                                 total_shares, pool_amounts, <<stnearAmount, wnearAmount>>)
              lpShares == calcLpSharesFromAmounts(
                              total_shares, pool_amounts, <<stnearAmount, wnearAmount>>)
              actions ==
                  <<StartOp("depositTokensOnRef",
                            [deposits |->
                                <<[token |-> ADDRESS_METAPOOL, amount |-> stnearAmount],
                                  [token |-> ADDRESS_WNEAR, amount |-> wnearAmount]>>]),
                    StartOp("addLiquidity",
                            [positions |->
                                <<[pool_id |-> STNEAR_WNEAR_POOL_ID,
                                   amounts |-> <<stnearAmount, wnearAmount>>]>>]),
                    StartOp("farmStakeV2",
                            [amount |-> lpShares, poolID |-> STNEAR_WNEAR_POOL_ID])>>
          IN  IF thrown # "none"
              THEN /\ step' = [step EXCEPT !.pc = "failed", !.thrown = thrown]
                   /\ UNCHANGED <<ops, wallet>>
              ELSE /\ step' = [step EXCEPT !.pc = "passToWallet"]
                   /\ ops' = actions
                   /\ wallet' = [wallet EXCEPT !.pc = "awaiting"]
    /\ UNCHANGED <<call, accessKeys, isFarmActive>>

\* getPoolInfo, lines 229-241, then stepTwoAction, lines 707-726.
GetPoolReturns ==
    /\ step.name = "stepTwoAction" /\ step.pc = "get_pool"
    /\ \E answer \in PoolAnswers \cup {ViewCallFailure} :
          LET stnearAmount == step.amounts.stnearAmount
              wnearAmount == step.amounts.wnearAmount
              total_shares == answer.shares_total_supply
              pool_amounts == answer.amounts
              thrown == IF answer = ViewCallFailure THEN "ViewCallFailure"
                        ELSE calcLpSharesFromAmountsThrows(
                                 total_shares, pool_amounts, <<stnearAmount, wnearAmount>>)
              lpShares == calcLpSharesFromAmounts(
                              total_shares, pool_amounts, <<stnearAmount, wnearAmount>>)
              actions ==
                  <<StartOp("depositTokensOnRef",
                            [deposits |->
                                <<[token |-> ADDRESS_METAPOOL, amount |-> stnearAmount],
                                  [token |-> ADDRESS_WNEAR, amount |-> wnearAmount]>>]),
                    StartOp("addLiquidity",
                            [positions |->
                                <<[pool_id |-> STNEAR_WNEAR_POOL_ID,
                                   amounts |-> <<stnearAmount, wnearAmount>>]>>])>>
                  \o (IF isFarmActive
                      THEN <<StartOp("farmStakeV2",
                                     [amount |-> lpShares, poolID |-> STNEAR_WNEAR_POOL_ID])>>
                      ELSE <<>>)
          IN  IF thrown # "none"
              THEN /\ step' = [step EXCEPT !.pc = "failed", !.thrown = thrown]
                   /\ UNCHANGED <<ops, wallet>>
              ELSE /\ step' = [step EXCEPT !.pc = "passToWallet"]
                   /\ ops' = actions
                   /\ wallet' = [wallet EXCEPT !.pc = "awaiting"]
    /\ UNCHANGED <<call, accessKeys, isFarmActive>>

\* The view calls of getPoolInfo that have been issued and have not answered:
\* line 219 awaits get_pool_shares before line 237 issues get_pool.
GetPoolInfoInFlight ==
    IF step.name # "stepTwoAction" THEN {}
    ELSE IF step.pc = "get_pool_shares" THEN {"get_pool_shares"}
    ELSE IF step.pc = "get_pool" THEN {"get_pool"}
    ELSE {}

\* A recipe calls one operation and awaits its transactions.
InvokeOperation ==
    /\ step = Idle
    /\ \E c \in OperationCalls :
          /\ step' = [name |-> c.name, pc |-> "await", thrown |-> "none"]
          /\ ops' = <<StartOp(c.name, c.args)>>
    /\ UNCHANGED <<call, accessKeys, isFarmActive, wallet>>

\* An operation awaited by passToWallet has failed: the rejection of
\* Promise.all (line 647) is queued ahead of the answer of any lookup still in
\* flight, and what the other operations do after it is seen by nobody.
Rejecting ==
    wallet.pc \in {"awaiting", "rejected"} /\ \E k \in 1 .. Len(ops) : ops[k].pc = "failed"

\* Variant: a failed view call is taken for an empty storage balance.
ViewReturnsSwallowsFailure(i) ==
    /\ ~Rejecting
    /\ ops[i].pc = "view"
    /\ \E answer \in ViewAnswers(ops[i]) \cup {ViewCallFailure} :
          LET read == IF answer = ViewCallFailure
                      THEN [total |-> <<0>>, available |-> <<0>>] ELSE answer
              thrown == ThrowsAfterView(ops[i].name, ops[i].args, read)
              reqs == Requests(ops[i].name, ops[i].args, read)
          IN  ops' = [ops EXCEPT ![i] =
                        IF thrown # "none"
                        THEN [@ EXCEPT !.pc = "failed", !.thrown = thrown, !.answer = answer]
                        ELSE [@ EXCEPT !.pc = "build", !.answer = answer, !.reqs = reqs,
                                       !.built = Awaiting(reqs)]]
    /\ UNCHANGED <<call, accessKeys, isFarmActive, step, wallet>>

\* The view call of operation i answers and the operation runs on to its
\* Promise.all(preTXs), or throws.
ViewReturns(i) ==
    /\ ~Rejecting
    /\ ops[i].pc = "view"
    /\ \E answer \in ViewAnswers(ops[i]) \cup {ViewCallFailure} :
          LET thrown == ThrowsAfterView(ops[i].name, ops[i].args, answer)
              reqs == Requests(ops[i].name, ops[i].args, answer)
          IN  ops' = [ops EXCEPT ![i] =
                        IF thrown # "none"
                        THEN [@ EXCEPT !.pc = "failed", !.thrown = thrown, !.answer = answer]
                        ELSE [@ EXCEPT !.pc = "build", !.answer = answer, !.reqs = reqs,
                                       !.built = Awaiting(reqs)]]
    /\ UNCHANGED <<call, accessKeys, isFarmActive, step, wallet>>

\* Variant: every transaction is handed to the signer as soon as it is built.
MakeTransactionReturnsSigned(i, j) ==
    /\ ~Rejecting
    /\ ops[i].pc = "build"
    /\ j \in 1 .. Len(ops[i].reqs)
    /\ ops[i].built[j] = NoTx
    /\ \E accessKey \in Keys \cup {NoKey} :
          LET thrown == makeTransactionThrows(accessKey)
              tx == makeTransaction(ops[i].reqs[j], accessKey, accessKeys[accessKey],
                                    FinalBlockHash)
              built == [ops[i].built EXCEPT ![j] = tx]
          IN  IF thrown # "none"
              THEN /\ ops' = [ops EXCEPT ![i] = [@ EXCEPT !.pc = "failed", !.thrown = thrown]]
                   /\ wallet' = wallet
              ELSE /\ ops' = [ops EXCEPT ![i] =
                                [@ EXCEPT !.built = built,
                                          !.pc = IF AllBuilt(built) THEN "done" ELSE "build"]]
                   /\ wallet' = [wallet EXCEPT
                                    !.resolved = IF wallet.pc = "awaiting" /\ AllBuilt(built)
                                                 THEN Append(@, i) ELSE @,
                                    !.requests = Append(@, [transactions |-> <<tx>>,
                                                            callbackUrl |-> "location.href"])]
    /\ UNCHANGED <<call, accessKeys, isFarmActive, step>>

\* Both lookups of the j-th makeTransaction of operation i have answered
\* (lines 621-642); when it was the last one awaited, Promise.all(preTXs)
\* resolves and the operation returns; without a key the operation rejects
\* (what its other lookups answer after that is seen by nobody).
MakeTransactionReturns(i, j) ==
    /\ ~Rejecting
    /\ ops[i].pc = "build"
    /\ j \in 1 .. Len(ops[i].reqs)
    /\ ops[i].built[j] = NoTx
    /\ \E accessKey \in Keys \cup {NoKey} :
          LET thrown == makeTransactionThrows(accessKey)
              tx == makeTransaction(ops[i].reqs[j], accessKey, accessKeys[accessKey],
                                    FinalBlockHash)
              built == [ops[i].built EXCEPT ![j] = tx]
          IN  /\ ops' = [ops EXCEPT ![i] =
                           IF thrown # "none"
                           THEN [@ EXCEPT !.pc = "failed", !.thrown = thrown]
                           ELSE [@ EXCEPT !.built = built,
                                          !.pc = IF AllBuilt(built) THEN "done" ELSE "build"]]
              /\ wallet' = IF wallet.pc = "awaiting" /\ thrown = "none" /\ AllBuilt(built)
                           THEN [wallet EXCEPT !.resolved = Append(@, i)]
                           ELSE wallet
    /\ UNCHANGED <<call, accessKeys, isFarmActive, step>>

\* Variant: the lists are joined last to first.
RECURSIVE FlatBackwards(_)
FlatBackwards(lists) ==
    IF lists = <<>> THEN <<>> ELSE FlatBackwards(Tail(lists)) \o Head(lists)

RECURSIVE Flat(_)
Flat(lists) == IF lists = <<>> THEN <<>> ELSE Head(lists) \o Flat(Tail(lists))

\* Variant: the operations are awaited until each has settled, and what the
\* resolved ones returned is handed to the signer.
RequestSignTransactionsSettled ==
    /\ wallet.pc = "awaiting"
    /\ \A i \in 1 .. Len(ops) : ops[i].pc \in {"done", "failed"}
    /\ wallet' = [wallet EXCEPT
                     !.pc = "redirected",
                     !.requests = Append(@, [transactions |->
                                                Flat([i \in 1 .. Len(ops) |->
                                                         IF ops[i].pc = "done" THEN ops[i].built
                                                         ELSE <<>>]),
                                             callbackUrl |-> "location.href"])]
    /\ UNCHANGED <<call, accessKeys, isFarmActive, step, ops>>

\* Variant: the signer is called as soon as one operation has resolved.
RequestSignTransactionsEarly ==
    /\ wallet.pc = "awaiting"
    /\ \E i \in 1 .. Len(ops) : ops[i].pc = "done"
    /\ wallet' = [wallet EXCEPT
                     !.pc = "redirected",
                     !.requests = Append(@, [transactions |->
                                                Flat([i \in 1 .. Len(ops) |->
                                                         IF ops[i].pc = "done" THEN ops[i].built
                                                         ELSE <<>>]),
                                             callbackUrl |-> "location.href"])]
    /\ UNCHANGED <<call, accessKeys, isFarmActive, step, ops>>

\* Variant: the lists are joined in the order the operations resolved.
RequestSignTransactionsAsResolved ==
    /\ wallet.pc = "awaiting"
    /\ \A i \in 1 .. Len(ops) : ops[i].pc = "done"
    /\ wallet' = [wallet EXCEPT
                     !.pc = "redirected",
                     !.requests = Append(@, [transactions |->
                                                Flat([k \in 1 .. Len(wallet.resolved) |->
                                                         ops[wallet.resolved[k]].built]),
                                             callbackUrl |-> "location.href"])]
    /\ UNCHANGED <<call, accessKeys, isFarmActive, step, ops>>

\* passToWallet, lines 647-651: every operation has resolved.
RequestSignTransactions ==
    /\ wallet.pc = "awaiting"
    /\ \A i \in 1 .. Len(ops) : ops[i].pc = "done"
    /\ wallet' = [wallet EXCEPT
                     !.pc = "redirected",
                     !.requests = Append(@, [transactions |->
                                                Flat([i \in 1 .. Len(ops) |-> ops[i].built]),
                                             callbackUrl |-> "location.href"])]
    /\ UNCHANGED <<call, accessKeys, isFarmActive, step, ops>>

\* passToWallet, line 647: Promise.all rejects as soon as one operation does.
PassToWalletRejects ==
    /\ wallet.pc = "awaiting"
    /\ \E i \in 1 .. Len(ops) : ops[i].pc = "failed"
    /\ wallet' = [wallet EXCEPT !.pc = "rejected"]
    /\ UNCHANGED <<call, accessKeys, isFarmActive, step, ops>>

Init ==
    /\ call = NewCall("none", <<>>)
    /\ accessKeys \in [Keys -> 0 .. MaxNonce]
    /\ isFarmActive = FALSE
    /\ step = Idle
    /\ ops = <<>>
    /\ wallet = NoWallet

Next ==
    \/ StepOneAction
    \/ StepTwoAction
    \/ GetPoolSharesReturns
    \/ GetPoolReturns
    \/ InvokeOperation
    \/ \E i \in 1 .. Len(ops) : ViewReturns(i)
    \/ \E i \in 1 .. Len(ops) : \E j \in 1 .. MaxDeposits + 1 : MakeTransactionReturns(i, j)
    \/ RequestSignTransactions
    \/ PassToWalletRejects

Spec == Init /\ [][Next]_vars

\* ------------------------------------------------------------ the two steps, every lookup answering
\* stepOneAction or stepTwoAction alone, from one state of the access keys, with
\* every lookup in flight answering in the end (it may answer with a failure)
\* and every continuation that can run running.
InitSteps ==
    /\ call = NewCall("none", <<>>)
    /\ accessKeys = [k \in Keys |-> 0]
    /\ isFarmActive = FALSE
    /\ step = Idle
    /\ ops = <<>>
    /\ wallet = NoWallet

NextSteps ==
    \/ StepOneAction
    \/ StepTwoAction
    \/ GetPoolSharesReturns
    \/ GetPoolReturns
    \/ \E i \in 1 .. Len(ops) : ViewReturns(i)
    \/ \E i \in 1 .. Len(ops) : \E j \in 1 .. MaxDeposits + 1 : MakeTransactionReturns(i, j)
    \/ RequestSignTransactions
    \/ PassToWalletRejects

MaxOps == 3

FairSteps ==
    /\ WF_vars(GetPoolSharesReturns)
    /\ WF_vars(GetPoolReturns)
    /\ \A i \in 1 .. MaxOps : WF_vars(i <= Len(ops) /\ ViewReturns(i))
    /\ \A i \in 1 .. MaxOps : \A j \in 1 .. MaxDeposits + 1 :
          WF_vars(i <= Len(ops) /\ MakeTransactionReturns(i, j))
    /\ WF_vars(RequestSignTransactions)
    /\ WF_vars(PassToWalletRejects)

SpecSteps == InitSteps /\ [][NextSteps]_vars /\ FairSteps

\* ------------------------------------------------------------ claims on the pure functions
Returned(fn) == call.fn = fn /\ call.done /\ call.thrown = "none"

Min(S) == CHOOSE x \in S : \A y \in S : x <= y

\* floor(T * supplied[i] / pool_amounts[i]), the share candidate of token i.
Candidate(a, i) ==
    (BigInt(a.pool_total_shares) * BigInt(a.lp_amounts[i])) \div BigInt(a.pool_amounts[i])

LpDomain(a) ==
    /\ a.pool_amounts # <<>>
    /\ Len(a.lp_amounts) = Len(a.pool_amounts)
    /\ \A i \in 1 .. Len(a.pool_amounts) : BigInt(a.pool_amounts[i]) > 0

\* C1 (as stated): for non-empty aligned inputs with positive pool amounts,
\* calcLpSharesFromAmounts returns floor(min_i candidate_i * 997 / 1000), the
\* minimum taken over every index, the first included; 1000000, [100,200],
\* [10,20] gives 99700.
C1_LpSharesIsHaircutOfMinCandidate ==
    (call.fn = "calcLpSharesFromAmounts" /\ call.done /\ LpDomain(call.args)) =>
        /\ call.thrown = "none"
        /\ call.result =
              toString((Min({Candidate(call.args, i) :
                                i \in 1 .. Len(call.args.pool_amounts)}) * 997) \div 1000)

\* C2 (as stated): the estimate never exceeds the candidate of any token index,
\* the first included.
C2_LpSharesNeverOverCredits ==
    (Returned("calcLpSharesFromAmounts") /\ LpDomain(call.args)) =>
        \A i \in 1 .. Len(call.args.pool_amounts) :
            BigInt(call.result) <= Candidate(call.args, i)

\* C8: for x >= 0 and m > 0, roundUpToNearest(x, m) returns
\* r = x + ((m - x mod m) mod m): r mod m = 0, r - m < x <= r, r = x when m
\* divides x; (0,5) -> 0, (39,5) -> 40, (40,5) -> 40, (41,5) -> 45.
C8_RoundUpToNearest ==
    (call.fn = "roundUpToNearest" /\ call.done /\ BigInt(call.args.m) > 0) =>
        LET x == BigInt(call.args.x)
            m == BigInt(call.args.m)
            r == BigInt(call.result)
        IN  /\ call.thrown = "none"
            /\ call.result = toString(x + ((m - (x % m)) % m))
            /\ r % m = 0
            /\ r - m < x /\ x <= r
            /\ (x % m = 0 => r = x)
            /\ (m = 5 /\ x = 0 => call.result = <<0>>)
            /\ (m = 5 /\ x = 39 => call.result = <<4, 0>>)
            /\ (m = 5 /\ x = 40 => call.result = <<4, 0>>)
            /\ (m = 5 /\ x = 41 => call.result = <<4, 5>>)

C8_Witness ==
    /\ Returned("roundUpToNearest")
    /\ call.args = [x |-> <<4, 1>>, m |-> <<5>>]
    /\ call.result = <<4, 5>>

\* C9: with total_shares > 0, calcMinLPAmountsOut returns one amount per pool
\* amount, in order, each floor(floor(pool_amounts[i] * user_shares /
\* total_shares) * 999 / 1000); 100, 1000, [500,900] gives [49,89].
C9_MinLPAmountsOut ==
    (call.fn = "calcMinLPAmountsOut" /\ call.done /\ BigInt(call.args.total_shares) > 0) =>
        LET a == call.args
        IN  /\ call.thrown = "none"
            /\ Len(call.result) = Len(a.amounts)
            /\ \A i \in 1 .. Len(a.amounts) :
                  call.result[i] =
                      toString((((BigInt(a.amounts[i]) * BigInt(a.user_shares))
                                    \div BigInt(a.total_shares)) * 999) \div 1000)
            /\ (a = [user_shares |-> <<1, 0, 0>>, total_shares |-> <<1, 0, 0, 0>>,
                     amounts |-> << <<5, 0, 0>>, <<9, 0, 0>> >>]
                    => call.result = << <<4, 9>>, <<8, 9>> >>)

C9_Witness ==
    /\ Returned("calcMinLPAmountsOut")
    /\ call.args = [user_shares |-> <<1, 0, 0>>, total_shares |-> <<1, 0, 0, 0>>,
                    amounts |-> << <<5, 0, 0>>, <<9, 0, 0>> >>]
    /\ call.result = << <<4, 9>>, <<8, 9>> >>

\* C11 (as stated): whenever the smallest candidate over every index is at
\* least 1, the estimate calcLpSharesFromAmounts returns is strictly smaller
\* than that candidate.
C11_EstimateBelowMinCandidate ==
    (Returned("calcLpSharesFromAmounts") /\ LpDomain(call.args)) =>
        LET smallest == Min({Candidate(call.args, i) :
                                i \in 1 .. Len(call.args.pool_amounts)})
        IN  smallest >= 1 => BigInt(call.result) < smallest

\* ------------------------------------------------------------ claims on the operations and batches
IsStorageDeposit(action) == action.methodName = "storage_deposit"

\* Operation i has received a storage record with an available amount and has
\* gone on to request its transactions.
AnsweredAvailable(i, name) ==
    /\ ops[i].name = name
    /\ ops[i].pc \in {"build", "done", "failed"}
    /\ ops[i].thrown \in {"none", "NoMatchingKey"}
    /\ ops[i].answer # NullObject
    /\ ops[i].answer.available # NULL

MinDeposit == BigInt(MIN_DEPOSIT_PER_TOKEN)

\* C3 (as stated): in every batch handed to the signer, the nonces of the
\* transactions built from one access key strictly increase along the batch
\* (so no two of them are equal).
C3_NoncesIncreasePerKey ==
    \A r \in 1 .. Len(wallet.requests) :
        LET txs == wallet.requests[r].transactions
        IN  \A i, j \in 1 .. Len(txs) :
                (i < j /\ txs[i].publicKey = txs[j].publicKey) => txs[i].nonce < txs[j].nonce

\* C4 (as stated): depositTokensOnRef with N deposits and available storage
\* >= N * MIN_DEPOSIT_PER_TOKEN requests exactly the N token deposits: no
\* storage_deposit, no transaction to the exchange.
C4_NoStorageDepositWhenEnough ==
    \A i \in 1 .. Len(ops) :
        (/\ AnsweredAvailable(i, "depositTokensOnRef")
         /\ BigInt(ops[i].answer.available) >= Len(ops[i].args.deposits) * MinDeposit) =>
            /\ Len(ops[i].reqs) = Len(ops[i].args.deposits)
            /\ \A j \in 1 .. Len(ops[i].reqs) :
                  /\ ops[i].reqs[j].receiverId # ADDRESS_REF_EXCHANGE
                  /\ \A k \in 1 .. Len(ops[i].reqs[j].actions) :
                        ~IsStorageDeposit(ops[i].reqs[j].actions[k])

\* C5 (as stated): when storage_balance_of answers null, or a record with a
\* null available, depositTokensOnRef raises no error and requests a
\* storage_deposit of N * MIN_DEPOSIT_PER_TOKEN on the exchange, then the N
\* token deposits.
C5_NullStorageDepositsFullAmount ==
    \A i \in 1 .. Len(ops) :
        (/\ ops[i].name = "depositTokensOnRef"
         /\ ops[i].pc # "view"
         /\ ops[i].thrown # "ViewCallFailure"
         /\ (ops[i].answer = NullObject \/ ops[i].answer.available = NULL)) =>
            /\ ops[i].thrown # "TypeError"
            /\ Len(ops[i].reqs) = Len(ops[i].args.deposits) + 1
            /\ ops[i].reqs[1].receiverId = ADDRESS_REF_EXCHANGE
            /\ Len(ops[i].reqs[1].actions) = 1
            /\ IsStorageDeposit(ops[i].reqs[1].actions[1])
            /\ ops[i].reqs[1].actions[1].deposit =
                  toString(Len(ops[i].args.deposits) * MinDeposit)

\* C6: depositTokensOnRef with N deposits and available storage
\* a < N * MIN_DEPOSIT_PER_TOKEN first requests one storage_deposit on the
\* exchange whose deposit d is the shortfall against N * MIN rounded up to a
\* multiple of MIN: d = x + ((MIN - x mod MIN) mod MIN) for x = N * MIN - a,
\* d mod MIN = 0, a + d >= N * MIN and d - x < MIN.
C6_ShortfallAgainstNTimesMin ==
    \A i \in 1 .. Len(ops) :
        (/\ AnsweredAvailable(i, "depositTokensOnRef")
         /\ BigInt(ops[i].answer.available) < Len(ops[i].args.deposits) * MinDeposit) =>
            LET a == BigInt(ops[i].answer.available)
                needed == Len(ops[i].args.deposits) * MinDeposit
                x == needed - a
            IN  /\ Len(ops[i].reqs) = Len(ops[i].args.deposits) + 1
                /\ ops[i].reqs[1].receiverId = ADDRESS_REF_EXCHANGE
                /\ Len(ops[i].reqs[1].actions) = 1
                /\ IsStorageDeposit(ops[i].reqs[1].actions[1])
                /\ LET d == BigInt(ops[i].reqs[1].actions[1].deposit)
                   IN  /\ ops[i].reqs[1].actions[1].deposit =
                             toString(x + ((MinDeposit - (x % MinDeposit)) % MinDeposit))
                       /\ d % MinDeposit = 0
                       /\ a + d >= needed
                       /\ d - x < MinDeposit

\* Two deposits with 5 available: more than 1 x MIN, less than 2 x MIN; the
\* shortfall 3 is paid as 4.
C6_Witness ==
    \E i \in 1 .. Len(ops) :
        /\ AnsweredAvailable(i, "depositTokensOnRef")
        /\ Len(ops[i].args.deposits) = 2
        /\ ops[i].answer.available = <<5>>
        /\ ops[i].pc = "done"
        /\ ops[i].built[1].receiverId = ADDRESS_REF_EXCHANGE
        /\ ops[i].built[1].actions[1].deposit = <<4>>

\* C7 (as stated): no two transactions of a batch handed to the signer have
\* the same receiver.
C7_OneTransactionPerReceiver ==
    \A r \in 1 .. Len(wallet.requests) :
        LET txs == wallet.requests[r].transactions
        IN  \A i, j \in 1 .. Len(txs) : i # j => txs[i].receiverId # txs[j].receiverId

\* C10: every add_liquidity action of addLiquidity passes the position's
\* amounts unchanged and min_amounts of the same length with
\* min_amounts[i] = floor(amounts[i] * 999 / 1000); 1000 gives 999.
C10_AddLiquidityMinAmounts ==
    \A i \in 1 .. Len(ops) :
        (ops[i].name = "addLiquidity" /\ ops[i].pc \in {"build", "done", "failed"}) =>
            /\ Len(ops[i].reqs) = 1
            /\ Len(ops[i].reqs[1].actions) = Len(ops[i].args.positions)
            /\ \A k \in 1 .. Len(ops[i].args.positions) :
                  LET amounts == ops[i].args.positions[k].amounts
                      a == ops[i].reqs[1].actions[k].args
                  IN  /\ a.amounts = amounts
                      /\ Len(a.min_amounts) = Len(amounts)
                      /\ \A t \in 1 .. Len(amounts) :
                            /\ a.min_amounts[t] = toString((BigInt(amounts[t]) * 999) \div 1000)
                            /\ (amounts[t] = <<1, 0, 0, 0>> => a.min_amounts[t] = <<9, 9, 9>>)

C10_Witness ==
    \E i \in 1 .. Len(ops) :
        /\ ops[i].name = "addLiquidity" /\ ops[i].pc = "done"
        /\ Len(ops[i].args.positions) = 1
        /\ ops[i].built[1].actions[1].args.amounts = << <<1, 0, 0, 0>>, <<2, 5, 0, 0>> >>
        /\ ops[i].built[1].actions[1].args.min_amounts = << <<9, 9, 9>>, <<2, 4, 9, 7>> >>

\* The available amount farmStake compares with FARM_STORAGE_BALANCE (a null
\* record or a null available counts as 0), once the operation has gone on to
\* request its transactions.
FarmStakeAnswered(i) ==
    /\ ops[i].name = "farmStake"
    /\ ops[i].pc \in {"build", "done", "failed"}
    /\ ops[i].thrown \in {"none", "NoMatchingKey"}

FarmAvailable(i) ==
    IF ops[i].answer = NullObject \/ ops[i].answer.available = NULL
    THEN 0 ELSE BigInt(ops[i].answer.available)

FarmBalance == BigInt(FARM_STORAGE_BALANCE)

\* C12 (as stated): when farmStake finds less than FARM_STORAGE_BALANCE
\* available, the deposit of its storage_deposit is the shortfall
\* FARM_STORAGE_BALANCE - available rounded up to a multiple of
\* MIN_DEPOSIT_PER_TOKEN.
C12_FarmStakeDepositsRoundedShortfall ==
    \A i \in 1 .. Len(ops) :
        (FarmStakeAnswered(i) /\ FarmAvailable(i) < FarmBalance) =>
            LET x == FarmBalance - FarmAvailable(i)
            IN  /\ IsStorageDeposit(ops[i].reqs[1].actions[1])
                /\ ops[i].reqs[1].actions[1].deposit =
                      toString(x + ((MinDeposit - (x % MinDeposit)) % MinDeposit))

\* C12 (amended): when farmStake finds less than FARM_STORAGE_BALANCE
\* available, its first transaction goes to the farming contract with one
\* storage_deposit whose deposit is FARM_STORAGE_BALANCE, whatever the
\* available amount.
C12_FarmStakeDepositsFarmStorageBalance ==
    \A i \in 1 .. Len(ops) :
        (FarmStakeAnswered(i) /\ FarmAvailable(i) < FarmBalance) =>
            /\ Len(ops[i].reqs) = 2
            /\ ops[i].reqs[1].receiverId = ADDRESS_REF_FARMING
            /\ Len(ops[i].reqs[1].actions) = 1
            /\ IsStorageDeposit(ops[i].reqs[1].actions[1])
            /\ ops[i].reqs[1].actions[1].deposit = FARM_STORAGE_BALANCE

\* One unit short of FARM_STORAGE_BALANCE: the shortfall is 1, the deposit 36.
C12_Witness ==
    \E i \in 1 .. Len(ops) :
        /\ FarmStakeAnswered(i)
        /\ ops[i].pc = "done"
        /\ ops[i].answer # NullObject
        /\ ops[i].answer.available = <<3, 5>>
        /\ IsStorageDeposit(ops[i].built[1].actions[1])
        /\ ops[i].built[1].actions[1].deposit = <<3, 6>>

C14_NoMatchingKeyNeverSigns ==
    \A i \in 1 .. Len(ops) :
        ops[i].thrown = "NoMatchingKey" =>
            /\ ops[i].pc = "failed"
            /\ ~AllBuilt(ops[i].built)
            /\ wallet.pc # "redirected"
            /\ wallet.requests = <<>>

\* The deposits were built, addLiquidity found no key: passToWallet rejected.
C14_Witness ==
    /\ wallet.pc = "rejected"
    /\ wallet.requests = <<>>
    /\ Len(ops) >= 2
    /\ ops[1].pc = "done"
    /\ ops[2].pc = "failed" /\ ops[2].thrown = "NoMatchingKey"

\* C16: requestSignTransactions is called at most once, and once it has been
\* called every operation of the batch has resolved with all its transactions
\* built: no view call, key lookup or build is pending or follows.
C16_SignRequestIsLast ==
    /\ Len(wallet.requests) <= 1
    /\ wallet.requests # <<>> =>
           /\ wallet.pc = "redirected"
           /\ step.pc = "passToWallet"
           /\ \A i \in 1 .. Len(ops) : ops[i].pc = "done" /\ AllBuilt(ops[i].built)

C16_Witness ==
    /\ Len(wallet.requests) = 1
    /\ Len(ops) = 3
    /\ \A i \in 1 .. Len(ops) : ops[i].pc = "done"
    /\ Len(wallet.requests[1].transactions) = 6

\* C17: makeTransaction and the operations never reach the signer: a step that
\* changes an operation leaves the sign requests as they are, the sign
\* requests change only in a passToWallet that was awaiting, and an operation
\* called outside passToWallet ends with nothing handed to the signer.
C17_OnlyPassToWalletReachesSigner ==
    [][/\ ops' # ops => wallet'.requests = wallet.requests
       /\ wallet'.requests # wallet.requests =>
              wallet.pc = "awaiting" /\ step.pc = "passToWallet"
       /\ step'.pc = "await" => wallet' = NoWallet]_vars

C17_Witness ==
    /\ step.pc = "await"
    /\ Len(ops) = 1
    /\ ops[1].name = "depositTokensOnRef"
    /\ ops[1].pc = "done"
    /\ Len(ops[1].built) = 3
    /\ wallet = NoWallet

\* The operation has gone on to request its transactions.
Responded(i) ==
    ops[i].pc \in {"build", "done"} \/ ops[i].thrown = "NoMatchingKey"

\* The storage check of the operation finds no deposit needed.
NoDepositNeeded(i) ==
    CASE ops[i].name = "farmStake" ->
            /\ ops[i].answer # NullObject
            /\ ops[i].answer.available # NULL
            /\ BigInt(ops[i].answer.available) >= FarmBalance
      [] ops[i].name = "farmUnstake" ->
            /\ ops[i].answer # NullObject
            /\ BigInt(ops[i].answer.available) > 0
      [] ops[i].name \in {"nearToWnear", "instantSwap"} ->
            /\ ops[i].answer # NullObject
            /\ BigInt(ops[i].answer.total) > 0
      [] ops[i].name = "nearToStnear" -> TRUE

PrimaryMethod(name) ==
    CASE name = "farmStake" -> "mft_transfer_call"
      [] name = "farmUnstake" -> "withdraw_seed"
      [] name = "nearToWnear" -> "near_deposit"
      [] name = "nearToStnear" -> "deposit_and_stake"
      [] name = "instantSwap" -> "ft_transfer_call"

\* C18: every transaction farmStake, farmUnstake, nearToWnear, nearToStnear and
\* instantSwap request has at least one action; when the storage check finds no
\* deposit needed they request exactly one transaction, holding the primary
\* action alone.
C18_NoEmptyTransactions ==
    \A i \in 1 .. Len(ops) :
        (/\ ops[i].name \in {"farmStake", "farmUnstake", "nearToWnear", "nearToStnear",
                              "instantSwap"}
         /\ Responded(i)) =>
            /\ Len(ops[i].reqs) >= 1
            /\ \A j \in 1 .. Len(ops[i].reqs) : Len(ops[i].reqs[j].actions) >= 1
            /\ NoDepositNeeded(i) =>
                   /\ Len(ops[i].reqs) = 1
                   /\ Len(ops[i].reqs[1].actions) = 1
                   /\ ops[i].reqs[1].actions[1].methodName = PrimaryMethod(ops[i].name)

C18_Witness ==
    \E i \in 1 .. Len(ops) :
        /\ ops[i].name = "farmStake"
        /\ ops[i].pc = "done"
        /\ ops[i].answer # NullObject
        /\ ops[i].answer.available = FARM_STORAGE_BALANCE
        /\ Len(ops[i].built) = 1
        /\ Len(ops[i].built[1].actions) = 1
        /\ ops[i].built[1].actions[1].methodName = "mft_transfer_call"

\* The number of transactions the operations before the i-th requested.
Before(i) == Len(Flat([k \in 1 .. (i - 1) |-> ops[k].reqs]))

\* C15: the sequence handed to the signer is the transactions of the first
\* operation of the array, in the order the operation requested them, then
\* those of the second, and so on, in whatever order the operations resolved.
C15_ArrayOrder ==
    \A r \in 1 .. Len(wallet.requests) :
        LET txs == wallet.requests[r].transactions
        IN  /\ Len(txs) = Before(Len(ops) + 1)
            /\ \A i \in 1 .. Len(ops) :
                  \A j \in 1 .. Len(ops[i].reqs) :
                      /\ txs[Before(i) + j] = ops[i].built[j]
                      /\ txs[Before(i) + j].receiverId = ops[i].reqs[j].receiverId
                      /\ txs[Before(i) + j].actions = ops[i].reqs[j].actions

\* The farm stake resolved first, the deposits last; the deposits come first
\* all the same.
C15_Witness ==
    /\ Len(wallet.requests) = 1
    /\ wallet.resolved = <<3, 2, 1>>
    /\ ops[1].name = "depositTokensOnRef"
    /\ Len(ops[1].built) = 3
    /\ wallet.requests[1].transactions[1] = ops[1].built[1]
    /\ wallet.requests[1].transactions[4] = ops[2].built[1]
    /\ wallet.requests[1].transactions[5] = ops[3].built[1]

\* The batch stepTwoAction has handed to the signer.
StepTwoBatch == wallet.requests[1].transactions

StepTwoSigned == step.name = "stepTwoAction" /\ wallet.requests # <<>>

HasAction(tx, methodName) ==
    \E a \in 1 .. Len(tx.actions) : tx.actions[a].methodName = methodName

\* A transaction of the farm stake: the storage of the farming contract, or the
\* transfer of the pool shares to it.
IsFarmStakeTx(tx) ==
    \/ tx.receiverId = ADDRESS_REF_FARMING
    \/ HasAction(tx, "mft_transfer_call")

\* A transaction of the token deposits: the storage on the exchange, or the
\* transfer of a token to it.
IsTokenDepositTx(tx) ==
    \/ tx.receiverId = ADDRESS_REF_EXCHANGE /\ \A a \in 1 .. Len(tx.actions) :
                                                   IsStorageDeposit(tx.actions[a])
    \/ tx.receiverId \in Tokens /\ HasAction(tx, "ft_transfer_call")

IsAddLiquidityTx(tx) == tx.receiverId = ADDRESS_REF_EXCHANGE /\ HasAction(tx, "add_liquidity")

\* C19: the batch stepTwoAction hands to the signer holds farm-stake
\* transactions exactly when isFarmActive is true; when it is false every
\* transaction of the batch is one of the token deposits or the add_liquidity.
C19_FarmStakeIffFarmActive ==
    StepTwoSigned =>
        /\ isFarmActive <=> \E t \in 1 .. Len(StepTwoBatch) : IsFarmStakeTx(StepTwoBatch[t])
        /\ isFarmActive <=> Len(ops) = 3
        /\ ~isFarmActive =>
               \A t \in 1 .. Len(StepTwoBatch) :
                   IsTokenDepositTx(StepTwoBatch[t]) \/ IsAddLiquidityTx(StepTwoBatch[t])

\* The flag is false: the two transfers and the add_liquidity, nothing else.
C19_Witness ==
    /\ StepTwoSigned
    /\ ~isFarmActive
    /\ Len(StepTwoBatch) = 3
    /\ IsTokenDepositTx(StepTwoBatch[1])
    /\ IsTokenDepositTx(StepTwoBatch[2])
    /\ IsAddLiquidityTx(StepTwoBatch[3])

\* C20: in the batch stepTwoAction hands to the signer the transfer of stNEAR
\* and the transfer of wNEAR are two transactions, both come before the one
\* add_liquidity transaction, and that one comes before every farm-stake
\* transaction.
C20_DepositsThenLiquidityThenFarm ==
    StepTwoSigned =>
        \E s, w, l \in 1 .. Len(StepTwoBatch) :
            /\ StepTwoBatch[s].receiverId = ADDRESS_METAPOOL
            /\ HasAction(StepTwoBatch[s], "ft_transfer_call")
            /\ StepTwoBatch[w].receiverId = ADDRESS_WNEAR
            /\ HasAction(StepTwoBatch[w], "ft_transfer_call")
            /\ s # w /\ s < l /\ w < l
            /\ \A t \in 1 .. Len(StepTwoBatch) :
                  /\ IsAddLiquidityTx(StepTwoBatch[t]) <=> t = l
                  /\ IsFarmStakeTx(StepTwoBatch[t]) => l < t
                  /\ IsTokenDepositTx(StepTwoBatch[t]) => t < l

\* The exchange storage, the two transfers, the add_liquidity, the farming
\* storage and the transfer of the shares, in this order.
C20_Witness ==
    /\ StepTwoSigned
    /\ Len(StepTwoBatch) = 6
    /\ StepTwoBatch[2].receiverId = ADDRESS_METAPOOL
    /\ StepTwoBatch[3].receiverId = ADDRESS_WNEAR
    /\ IsAddLiquidityTx(StepTwoBatch[4])
    /\ StepTwoBatch[5].receiverId = ADDRESS_REF_FARMING
    /\ HasAction(StepTwoBatch[6], "mft_transfer_call")

\* What holds once a view call has failed: the operation (or, for the view
\* calls of getPoolInfo, the step) has failed with that failure, has requested
\* and built no transaction, and nothing was handed to the signer.
ViewFailurePropagated ==
    /\ \A i \in 1 .. Len(ops) :
          ops[i].answer = ViewCallFailure =>
              /\ ops[i].pc = "failed"
              /\ ops[i].thrown = "ViewCallFailure"
              /\ ops[i].reqs = <<>>
              /\ ops[i].built = <<>>
              /\ wallet.requests = <<>>
    /\ step.thrown = "ViewCallFailure" =>
          /\ step.pc = "failed"
          /\ ops = <<>>
          /\ wallet = NoWallet

\* C21: a failed view call fails the operation that made it, which returns no
\* transaction; a passToWallet awaiting that operation never calls
\* requestSignTransactions; and a view call that has answered, failure
\* included, is not issued again.
C21_ViewCallFailurePropagates ==
    [][/\ ViewFailurePropagated'
       /\ \A i \in 1 .. Len(ops) :
             ops[i].pc # "view" => Len(ops') = Len(ops) /\ ops'[i].pc # "view"
       /\ step.pc \in {"get_pool", "passToWallet", "failed"} => step'.pc # "get_pool_shares"
       /\ step.pc \in {"passToWallet", "failed"} => step'.pc # "get_pool"]_vars

\* The deposits could not read the storage balance, addLiquidity was built:
\* passToWallet rejected.
C21_Witness ==
    /\ wallet.pc = "rejected"
    /\ wallet.requests = <<>>
    /\ Len(ops) >= 2
    /\ ops[1].name = "depositTokensOnRef"
    /\ ops[1].pc = "failed" /\ ops[1].thrown = "ViewCallFailure"
    /\ ops[1].built = <<>>
    /\ ops[2].pc = "done"

\* C22: depositTokensOnRef with N deposits requests N or N + 1 transactions:
\* the last N are one per deposit, to the deposit's token, in the order of the
\* deposits, each holding one ft_transfer_call of the deposit's amount with one
\* yocto attached; an extra transaction comes first, goes to the exchange and
\* holds one storage_deposit; it is there whenever the available storage is
\* below N * MIN_DEPOSIT_PER_TOKEN.
C22_DepositTransactions ==
    \A i \in 1 .. Len(ops) :
        (ops[i].name = "depositTokensOnRef" /\ Responded(i)) =>
            LET deposits == ops[i].args.deposits
                N == Len(deposits)
                L == Len(ops[i].reqs)
            IN  /\ L \in {N, N + 1}
                /\ \A k \in 1 .. N :
                      LET req == ops[i].reqs[L - N + k]
                      IN  /\ req.receiverId = deposits[k].token
                          /\ Len(req.actions) = 1
                          /\ req.actions[1].methodName = "ft_transfer_call"
                          /\ req.actions[1].args.amount = deposits[k].amount
                          /\ req.actions[1].deposit = <<1>>
                /\ L = N + 1 =>
                       /\ ops[i].reqs[1].receiverId = ADDRESS_REF_EXCHANGE
                       /\ Len(ops[i].reqs[1].actions) = 1
                       /\ IsStorageDeposit(ops[i].reqs[1].actions[1])
                /\ BigInt(ops[i].answer.available) < N * MinDeposit => L = N + 1

\* Two deposits and a storage balance one unit short: three transactions.
C22_Witness ==
    \E i \in 1 .. Len(ops) :
        /\ ops[i].name = "depositTokensOnRef"
        /\ ops[i].pc = "done"
        /\ Len(ops[i].args.deposits) = 2
        /\ ops[i].answer.available = <<7>>
        /\ Len(ops[i].built) = 3
        /\ ops[i].built[1].receiverId = ADDRESS_REF_EXCHANGE
        /\ ops[i].built[2].receiverId = ops[i].args.deposits[1].token
        /\ ops[i].built[3].receiverId = ops[i].args.deposits[2].token

\* The places <<transaction, action>> of the actions of operation i that call
\* methodName.
Places(i, methodName) ==
    {p \in (1 .. Len(ops[i].reqs)) \X (1 .. MaxPositions + 1) :
        /\ p[2] <= Len(ops[i].reqs[p[1]].actions)
        /\ ops[i].reqs[p[1]].actions[p[2]].methodName = methodName}

\* C23: in what farmStake, farmUnstake, nearToWnear and instantSwap request,
\* the primary action is there once and every storage_deposit comes before it:
\* earlier in the same transaction for nearToWnear and farmUnstake, in an
\* earlier transaction (to the farming contract, to token_out) for farmStake
\* and instantSwap.
C23_StorageDepositComesFirst ==
    \A i \in 1 .. Len(ops) :
        (/\ ops[i].name \in {"farmStake", "farmUnstake", "nearToWnear", "instantSwap"}
         /\ Responded(i)) =>
            LET primary == Places(i, PrimaryMethod(ops[i].name))
                storage == Places(i, "storage_deposit")
            IN  /\ Cardinality(primary) = 1
                /\ \A s \in storage : \A p \in primary :
                      IF ops[i].name \in {"nearToWnear", "farmUnstake"}
                      THEN s[1] = p[1] /\ s[2] < p[2]
                      ELSE /\ s[1] < p[1]
                           /\ ops[i].reqs[s[1]].receiverId =
                                 IF ops[i].name = "farmStake" THEN ADDRESS_REF_FARMING
                                 ELSE ops[i].args.swap_action.token_out
                           /\ ops[i].reqs[p[1]].receiverId =
                                 IF ops[i].name = "farmStake" THEN ADDRESS_REF_EXCHANGE
                                 ELSE ops[i].args.swap_action.token_in

\* nearToWnear for an account unknown to the wrapped-token contract.
C23_Witness ==
    \E i \in 1 .. Len(ops) :
        /\ ops[i].name = "nearToWnear"
        /\ ops[i].pc = "done"
        /\ ops[i].answer = NullObject
        /\ Len(ops[i].built) = 1
        /\ Len(ops[i].built[1].actions) = 2
        /\ IsStorageDeposit(ops[i].built[1].actions[1])
        /\ ops[i].built[1].actions[2].methodName = "near_deposit"

\* C24: addLiquidity with k >= 1 positions makes no view call and requests one
\* transaction, to the exchange, holding k add_liquidity actions, the i-th for
\* the i-th position, each with LP_STORAGE_AMOUNT attached.
C24_AddLiquidityOneTransaction ==
    \A i \in 1 .. Len(ops) :
        (ops[i].name = "addLiquidity" /\ Len(ops[i].args.positions) >= 1) =>
            LET positions == ops[i].args.positions
            IN  /\ ops[i].pc # "view"
                /\ ops[i].answer = NullObject
                /\ Len(ops[i].reqs) = 1
                /\ ops[i].reqs[1].receiverId = ADDRESS_REF_EXCHANGE
                /\ Len(ops[i].reqs[1].actions) = Len(positions)
                /\ \A k \in 1 .. Len(positions) :
                      LET action == ops[i].reqs[1].actions[k]
                      IN  /\ action.methodName = "add_liquidity"
                          /\ action.args.pool_id = positions[k].pool_id
                          /\ action.args.amounts = positions[k].amounts
                          /\ action.deposit = <<8>>
                          /\ action.deposit = LP_STORAGE_AMOUNT

\* Two positions with different amounts, in their order.
C24_Witness ==
    \E i \in 1 .. Len(ops) :
        /\ ops[i].name = "addLiquidity"
        /\ ops[i].pc = "done"
        /\ Len(ops[i].args.positions) = 2
        /\ ops[i].args.positions[1].amounts = << <<1, 0, 0, 0>> >>
        /\ ops[i].args.positions[2].amounts = << <<2, 5, 0, 0>>, <<1, 0, 0, 0>> >>
        /\ Len(ops[i].built) = 1
        /\ Len(ops[i].built[1].actions) = 2
        /\ ops[i].built[1].actions[1].args.amounts = << <<1, 0, 0, 0>> >>
        /\ ops[i].built[1].actions[2].args.amounts = << <<2, 5, 0, 0>>, <<1, 0, 0, 0>> >>

\* C25 (as stated): while getPoolInfo waits for the first of its two view
\* calls, get_pool_shares and get_pool are both in flight; it returns only
\* after both have answered.
C25_PoolViewsIssuedTogether ==
    /\ (step.name = "stepTwoAction" /\ step.pc = "get_pool_shares") =>
           GetPoolInfoInFlight = {"get_pool_shares", "get_pool"}
    /\ (step.name = "stepTwoAction" /\ step.pc = "passToWallet") =>
           GetPoolInfoInFlight = {}

\* The deposits attached to the actions of operation i that call methodName.
Attached(i, methodName) ==
    {BigInt(ops[i].reqs[p[1]].actions[p[2]].deposit) : p \in Places(i, methodName)}

StepOneResponded ==
    /\ step.name = "stepOneAction"
    /\ Len(ops) = 2
    /\ Responded(1) /\ Responded(2)

\* C26: in stepOneAction(allowance) the near_deposit and the
\* deposit_and_stake each carry floor(allowance / 2); the two together are at
\* most the allowance, 1 less when it is odd and equal to it when it is even.
C26_StepOneHalves ==
    StepOneResponded =>
        LET allowance == BigInt(step.allowance)
        IN  /\ ops[1].name = "nearToWnear" /\ ops[2].name = "nearToStnear"
            /\ Attached(1, "near_deposit") = {allowance \div 2}
            /\ Attached(2, "deposit_and_stake") = {allowance \div 2}
            /\ \A wrapped \in Attached(1, "near_deposit") :
                  \A staked \in Attached(2, "deposit_and_stake") :
                      /\ wrapped + staked <= allowance
                      /\ allowance - (wrapped + staked) = allowance % 2

\* An allowance of 5: 2 are wrapped, 2 are staked, 1 is left.
C26_Witness ==
    /\ StepOneResponded
    /\ step.allowance = <<5>>
    /\ wallet.pc = "redirected"
    /\ Attached(1, "near_deposit") = {2}
    /\ Attached(2, "deposit_and_stake") = {2}

RECURSIVE SumOf(_)
SumOf(amounts) == IF amounts = <<>> THEN 0 ELSE Head(amounts) + SumOf(Tail(amounts))

\* The deposits attached to all the actions of a batch, added up.
TotalAttached(txs) ==
    SumOf(Flat([t \in 1 .. Len(txs) |->
                   [a \in 1 .. Len(txs[t].actions) |-> BigInt(txs[t].actions[a].deposit)]]))

StepOneSigned == step.name = "stepOneAction" /\ wallet.requests # <<>>

StepOneHasStorageDeposit ==
    \E t \in 1 .. Len(wallet.requests[1].transactions) :
        HasAction(wallet.requests[1].transactions[t], "storage_deposit")

\* C27 (as stated): the deposits attached to all the actions of the batch
\* stepOneAction(allowance) hands to the signer add up to at most the allowance.
C27_StepOneWithinAllowance ==
    StepOneSigned =>
        TotalAttached(wallet.requests[1].transactions) <= BigInt(step.allowance)

\* C27 (amended): they add up to twice floor(allowance / 2), plus
\* NEW_ACCOUNT_STORAGE_COST when the batch holds a storage_deposit: at most
\* the allowance without a storage_deposit, at most the allowance plus
\* NEW_ACCOUNT_STORAGE_COST with one.
C27_StepOneWithinAllowancePlusStorage ==
    StepOneSigned =>
        LET total == TotalAttached(wallet.requests[1].transactions)
            allowance == BigInt(step.allowance)
            storage == IF StepOneHasStorageDeposit
                       THEN BigInt(NEW_ACCOUNT_STORAGE_COST) ELSE 0
        IN  /\ total = 2 * (allowance \div 2) + storage
            /\ total <= allowance + storage
            /\ total <= allowance + BigInt(NEW_ACCOUNT_STORAGE_COST)

\* An allowance of 4 for an account unknown to the wrapped-token contract:
\* 1 + 2 + 2 = 5 are attached.
C27_Witness ==
    /\ StepOneSigned
    /\ step.allowance = <<4>>
    /\ StepOneHasStorageDeposit
    /\ TotalAttached(wallet.requests[1].transactions) = 5

\* C28 (as stated): every transaction addLiquidity and depositTokensOnRef
\* request has at least one action; with an empty list of positions or of
\* deposits no transaction at all is requested for it.
C28_NoEmptyTransactionOnEmptyInput ==
    \A i \in 1 .. Len(ops) :
        (ops[i].name \in {"addLiquidity", "depositTokensOnRef"} /\ Responded(i)) =>
            /\ \A j \in 1 .. Len(ops[i].reqs) : Len(ops[i].reqs[j].actions) >= 1
            /\ (ops[i].name = "addLiquidity" /\ ops[i].args.positions = <<>>) =>
                   ops[i].reqs = <<>>

\* A lookup has answered with a failure: a view call failed, or no access key
\* was found.
LookupFailed ==
    \/ step.thrown = "ViewCallFailure"
    \/ \E i \in 1 .. Len(ops) : ops[i].thrown \in {"ViewCallFailure", "NoMatchingKey"}

\* C29 (as stated): when every lookup answers and none with a failure, a
\* passToWallet started by stepOneAction or stepTwoAction calls
\* requestSignTransactions in the end.
C29_PassToWalletEventuallySigns ==
    (wallet.pc = "awaiting") ~> (wallet.pc = "redirected" \/ LookupFailed)

\* C30: for user_shares <= total_shares every minimum calcMinLPAmountsOut
\* returns is at most the pool amount it was computed from; every
\* min_amounts[i] of add_liquidity is at most amounts[i] and falls short of it
\* by at most ceil(amounts[i] / 1000).
C30_MinimaNeverExceed ==
    /\ (/\ Returned("calcMinLPAmountsOut")
        /\ BigInt(call.args.user_shares) <= BigInt(call.args.total_shares)) =>
           /\ Len(call.result) = Len(call.args.amounts)
           /\ \A i \in 1 .. Len(call.args.amounts) :
                 BigInt(call.result[i]) <= BigInt(call.args.amounts[i])
    /\ Returned("addLiquidity") =>
           LET amounts == call.args.positions[1].amounts
               min_amounts == call.result[1].actions[1].args.min_amounts
           IN  /\ Len(min_amounts) = Len(amounts)
               /\ \A i \in 1 .. Len(amounts) :
                     LET a == BigInt(amounts[i])
                         m == BigInt(min_amounts[i])
                     IN  /\ m <= a
                         /\ a - m <= (a + 999) \div 1000

\* 1001 is bounded by 999: 2 short, which is ceil(1001 / 1000).
C30_Witness ==
    /\ Returned("addLiquidity")
    /\ call.args.positions[1].amounts = << <<1, 0, 0, 1>>, <<2, 0, 0>> >>
    /\ call.result[1].actions[1].args.min_amounts = << <<9, 9, 9>>, <<1, 9, 9>> >>

====
